---- MODULE Spec2Model ----
(***************************************************************************)
(* Models of four programs of the repository, each with its own state     *)
(* and its own specifications:                                             *)
(*   challenges/challenge_6.py  AsyncRateLimiter   Spec, SpecPrompt,       *)
(*                                                 SpecFair, SpecDemo,     *)
(*                              its wall clock     SpecWallClock           *)
(*                              two limiters       SpecPair                *)
(*   challenges/app.py          the items API      SpecItems               *)
(*   challenges/challenge_8.py  factorial          SpecFactorial           *)
(*   challenges/challenge_12_server.py             SpecRpc                 *)
(*                              CalculatorServicer                         *)
(*                                                                         *)
(* AsyncRateLimiter is a sliding window rate limiter for asyncio tasks.    *)
(* Time is counted in whole ticks of the clock read by time.time().  A     *)
(* coroutine runs without interruption between two awaits, so every action *)
(* below is one such run: from a call or a wake-up to the next await or to *)
(* the return.  asyncio.sleep(d) resumes its task when at least d has      *)
(* passed; asyncio.Lock serves its waiters first come, first served.       *)
(***************************************************************************)
EXTENDS Integers, Sequences, FiniteSets, TLC

\* ---------------------------------------------------------------- bounds
NTasks == 3
MaxAcquires == 3
MaxCallTime == 2
MaxMaxCalls == 2
MaxPeriod == 2

Tasks == 1..NTasks
NoTask == 0
\* the values the constructor is called with: invalid ones (<= 0) included
MaxCallsValues == -1..MaxMaxCalls
PeriodValues == 0..MaxPeriod
\* late enough for every call issued by MaxCallTime to be served, one
\* period after another
MaxTime == MaxCallTime + (MaxAcquires - 1) * MaxPeriod

VARIABLES
    constructed,  \* an AsyncRateLimiter object exists
    max_calls,    \* self.max_calls
    time_period,  \* self.time_period
    calls,        \* self.calls
    lock,         \* self._lock: the task holding it, or NoTask
    waiters,      \* self._lock: the tasks queued for it, oldest first
    pc,           \* where each task is in acquire()
    wake_at,      \* when the asyncio.sleep of a sleeping task ends
    clock,        \* time.time()
    issued,       \* number of acquire() calls made so far
    admitted,     \* history: every timestamp ever appended to self.calls
    returned,     \* history: number of acquire() calls that returned
    changed,      \* history: the task's current acquire() has changed self.calls
    last,         \* history: the step taken last
    ticket,       \* history: the number of each pending call, in call order
    served        \* history: the number of the call admitted last

limiter_vars == <<constructed, max_calls, time_period, calls, lock, waiters, pc,
                  wake_at, clock, issued, admitted, returned, changed, last,
                  ticket, served>>

VARIABLES
    items_db,     \* app.py: items_db
    request,      \* app.py: the request handled last
    response,     \* app.py: the response to it
    created,      \* history: by id, the item a create returned, until the
                  \* id is updated or deleted
    deleted       \* history: the ids deleted and not assigned again since

items_vars == <<items_db, request, response, created, deleted>>

VARIABLES
    fact_arg,     \* challenge_8.py: the argument of the outermost call
    fact_stack,   \* the n of every call of factorial in progress, innermost last
    fact_pc,      \* "idle", "calling", "returning", "returned" or "raised"
    fact_value,   \* the value being returned
    fact_error    \* the exception raised, "" when none

fact_vars == <<fact_arg, fact_stack, fact_pc, fact_value, fact_error>>

VARIABLES
    limiters,     \* challenge_6.py, two AsyncRateLimiter objects: the
                  \* attributes of each, its lock as holder and queue
    callers,      \* the tasks calling them: where each task is in acquire(),
                  \* on which limiter, and when its sleep ends
    pair_clock,   \* time.time()
    pair_last     \* history: the step taken last, and on which limiter

pair_vars == <<limiters, callers, pair_clock, pair_last>>

VARIABLES
    rpc_method,   \* challenge_12_server.py: the method called, "" when none
    rpc_arg,      \* request.limit or request.number
    rpc_pc,       \* "idle", "running" (the generator has more to do) or "done"
    rpc_locals,   \* the generator's local variables
    rpc_stream,   \* the responses yielded so far
    rpc_code      \* the status code of the call

rpc_vars == <<rpc_method, rpc_arg, rpc_pc, rpc_locals, rpc_stream, rpc_code>>

vars == <<limiter_vars, items_vars, fact_vars, pair_vars, rpc_vars>>

\* what the limiter leaves alone
outside_limiter == <<items_vars, fact_vars, pair_vars, rpc_vars>>

\* what the items API leaves alone
outside_items == <<limiter_vars, fact_vars, pair_vars, rpc_vars>>

\* what factorial leaves alone
outside_factorial == <<limiter_vars, items_vars, pair_vars, rpc_vars>>

\* what the two limiters leave alone
outside_pair == <<limiter_vars, items_vars, fact_vars, rpc_vars>>

\* what the calculator service leaves alone
outside_rpc == <<limiter_vars, items_vars, fact_vars, pair_vars>>

\* ------------------------------- challenge_12_server.py: initial state
NoLocals == [number |-> 0, count |-> 0, i |-> 0, result |-> <<>>]

RpcStart ==
    /\ rpc_method = ""
    /\ rpc_arg = 0
    /\ rpc_pc = "idle"
    /\ rpc_locals = NoLocals
    /\ rpc_stream = <<>>
    /\ rpc_code = "OK"

\* --------------------------------- challenge_6.py, two limiters: initial state
Limiters == {"first", "second"}
NoLimiter == "none"

\* no object yet
Unmade ==
    [made |-> FALSE, max_calls |-> 0, time_period |-> 0, calls |-> <<>>,
     lock |-> NoTask, waiters |-> <<>>]

NoPairStep == [op |-> "none", task |-> NoTask, on |-> NoLimiter]

PairStart ==
    /\ limiters = [l \in Limiters |-> Unmade]
    /\ callers = [t \in Tasks |-> [pc |-> "idle", on |-> NoLimiter, wake_at |-> 0]]
    /\ pair_clock = 0
    /\ pair_last = NoPairStep

\* ------------------------------------------ challenge_8.py: initial state
\* a Python value: its type and, for a number, its value (a float in
\* tenths, a bool as 0 or 1, a str by the number it spells)
PyInt(k) == [kind |-> "int", value |-> k]

FactStart ==
    /\ fact_arg = PyInt(0)
    /\ fact_stack = <<>>
    /\ fact_pc = "idle"
    /\ fact_value = <<>>
    /\ fact_error = ""

\* ------------------------------------------------- app.py: initial state
MaxItems == 3
MaxId == 4

NoItem == [id |-> 0, name |-> "", description |-> "", price |-> 0, quantity |-> 0]
NoRequest == [op |-> "none", id |-> 0, body |-> NoItem]
NoResponse == [status |-> 0, body |-> NoItem]

\* lines 43-65, prices in hundredths
InitialItems ==
    << [id |-> 1, name |-> "Laptop",
        description |-> "High performance laptop with 16GB RAM",
        price |-> 99999, quantity |-> 10],
       [id |-> 2, name |-> "Smartphone",
        description |-> "Latest smartphone with advanced camera",
        price |-> 69999, quantity |-> 15],
       [id |-> 3, name |-> "Headphones",
        description |-> "Wireless noise-cancelling headphones",
        price |-> 19999, quantity |-> 20] >>

\* the ids a request may name: those in use, and one that never exists
Ids == 1..(MaxId + 1)

ItemsStart ==
    /\ items_db = InitialItems
    /\ request = NoRequest
    /\ response = NoResponse
    /\ created = [x \in Ids |-> NoItem]
    /\ deleted = {}

NoStep == [op |-> "none", task |-> NoTask, before |-> <<>>, at |-> 0]

Step(op, t) == [op |-> op, task |-> t, before |-> calls, at |-> clock]

\* the number of the call a task is making: calls are numbered as made
Ticket(t) == IF ticket[t] # 0 THEN ticket[t] ELSE issued + 1

\* ------------------------------------------------------ AsyncRateLimiter

\* a comprehension that keeps the timestamp on the boundary
PruneInclusive(log, now) == SelectSeq(log, LAMBDA timestamp : timestamp >= now - time_period)

\* the list comprehension of lines 28-29 and 40-41
Prune(log, now) == SelectSeq(log, LAMBDA timestamp : timestamp > now - time_period)

\* a limit test that is off by one
AtLimitStrict(log) == Len(log) > max_calls

\* a limit reached one call early
AtLimitEarly(log) == Len(log) + 1 >= max_calls

\* line 32
AtLimit(log) == Len(log) >= max_calls

\* a wait that ends one tick early
WaitTimeEarly(log, now) == log[1] + time_period - now - 1

\* a wait of a whole period, whatever the age of the oldest call
WaitTimeWholePeriod(log, now) == time_period

\* lines 33-34
WaitTime(log, now) == log[1] + time_period - now

\* a timestamp recorded twice
RecordTwice(log, now) == Append(Append(log, now), now)

\* line 44
Record(log, now) == Append(log, now)

\* __init__: stores its arguments, whatever they are
New(mc, tp) ==
    /\ ~constructed
    /\ constructed' = TRUE
    /\ max_calls' = mc
    /\ time_period' = tp
    /\ calls' = <<>>
    /\ lock' = NoTask
    /\ waiters' = <<>>
    /\ last' = Step("new", NoTask)
    /\ UNCHANGED <<pc, wake_at, clock, issued, admitted, returned, changed,
                   ticket, served>>
    /\ UNCHANGED outside_limiter

\* a return that leaves the lock held
AdmitKeepsLock(t, log, now) ==
    /\ calls' = Record(log, now)
    /\ admitted' = admitted \o SubSeq(calls', Len(log) + 1, Len(calls'))
    /\ returned' = returned + 1
    /\ changed' = [changed EXCEPT ![t] = TRUE]
    /\ pc' = [pc EXCEPT ![t] = "done"]
    /\ lock' = t
    /\ served' = Ticket(t)
    /\ ticket' = [ticket EXCEPT ![t] = 0]
    /\ UNCHANGED wake_at

\* line 44 and the end of the `async with` block: the lock is released
Admit(t, log, now) ==
    /\ calls' = Record(log, now)
    /\ admitted' = admitted \o SubSeq(calls', Len(log) + 1, Len(calls'))
    /\ returned' = returned + 1
    /\ changed' = [changed EXCEPT ![t] = TRUE]
    /\ pc' = [pc EXCEPT ![t] = "done"]
    /\ lock' = NoTask
    /\ served' = Ticket(t)
    /\ ticket' = [ticket EXCEPT ![t] = 0]
    /\ UNCHANGED wake_at

\* a sleep outside the `async with` block
SuspendUnlocked(t, log, now) ==
    /\ calls' = log
    /\ changed' = [changed EXCEPT ![t] = (log # calls)]
    /\ pc' = [pc EXCEPT ![t] = "sleeping"]
    /\ wake_at' = [wake_at EXCEPT ![t] = now + WaitTime(log, now)]
    /\ lock' = NoTask
    /\ ticket' = [ticket EXCEPT ![t] = Ticket(t)]
    /\ UNCHANGED <<admitted, returned, served>>

\* line 37: the task sleeps inside the `async with` block
Suspend(t, log, now) ==
    /\ calls' = log
    /\ changed' = [changed EXCEPT ![t] = (log # calls)]
    /\ pc' = [pc EXCEPT ![t] = "sleeping"]
    /\ wake_at' = [wake_at EXCEPT ![t] = now + WaitTime(log, now)]
    /\ lock' = t
    /\ ticket' = [ticket EXCEPT ![t] = Ticket(t)]
    /\ UNCHANGED <<admitted, returned, served>>

\* line 33 on an empty list: IndexError leaves the `async with` block
Fail(t, log) ==
    /\ calls' = log
    /\ changed' = [changed EXCEPT ![t] = (log # calls)]
    /\ pc' = [pc EXCEPT ![t] = "error"]
    /\ lock' = NoTask
    /\ ticket' = [ticket EXCEPT ![t] = 0]
    /\ UNCHANGED <<wake_at, admitted, returned, served>>

\* lines 25-44 up to the first await, run by the task that got the lock
Body(t) ==
    LET now == clock
        log == Prune(calls, now)
    IN  IF AtLimit(log)
        THEN IF log = <<>>
             THEN Fail(t, log)
             ELSE IF WaitTime(log, now) > 0
                  THEN Suspend(t, log, now)
                  ELSE Admit(t, log, now)
        ELSE Admit(t, log, now)

\* a lock that a caller takes whenever nobody is queued, held or not
LockFreeIgnoresHolder == waiters = <<>>

\* asyncio.Lock.acquire takes a free lock at once when nobody is queued
LockFree == lock = NoTask /\ waiters = <<>>

\* acquire(): `async with self._lock` enters the block or queues the task
Acquire(t) ==
    /\ issued' = issued + 1
    /\ last' = Step("call", t)
    /\ IF LockFree
       THEN Body(t) /\ UNCHANGED waiters
       ELSE /\ waiters' = Append(waiters, t)
            /\ pc' = [pc EXCEPT ![t] = "queued"]
            /\ changed' = [changed EXCEPT ![t] = FALSE]
            /\ ticket' = [ticket EXCEPT ![t] = issued + 1]
            /\ UNCHANGED <<calls, lock, wake_at, admitted, returned, served>>
    /\ UNCHANGED <<constructed, max_calls, time_period, clock>>
    /\ UNCHANGED outside_limiter

\* a task calls acquire()
Call(t) ==
    /\ constructed
    /\ pc[t] \in {"idle", "done", "error"}
    /\ issued < MaxAcquires
    /\ clock <= MaxCallTime
    /\ Acquire(t)

CanResume(t) == lock = NoTask /\ waiters # <<>> /\ Head(waiters) = t

\* the released lock goes to the task queued longest, which enters the block
Resume(t) ==
    /\ CanResume(t)
    /\ waiters' = Tail(waiters)
    /\ last' = Step("resume", t)
    /\ Body(t)
    /\ UNCHANGED <<constructed, max_calls, time_period, clock, issued>>
    /\ UNCHANGED outside_limiter

CanWake(t) == pc[t] = "sleeping" /\ clock >= wake_at[t]

\* a wake-up that appends to the log as the sleep left it
WakeUnpruned(t) ==
    /\ CanWake(t)
    /\ last' = Step("wake", t)
    /\ Admit(t, calls, clock)
    /\ UNCHANGED <<constructed, max_calls, time_period, waiters, clock, issued>>
    /\ UNCHANGED outside_limiter

\* lines 39-44: the sleep is over
Wake(t) ==
    /\ CanWake(t)
    /\ last' = Step("wake", t)
    /\ Admit(t, Prune(calls, clock), clock)
    /\ UNCHANGED <<constructed, max_calls, time_period, waiters, clock, issued>>
    /\ UNCHANGED outside_limiter

CancelStep(t) == Step(IF pc[t] = "sleeping" THEN "cancel_sleep" ELSE "cancel_wait", t)

\* a cancellation that does not release the lock
CancelKeepsLock(t) ==
    /\ pc[t] \in {"queued", "sleeping"}
    /\ last' = CancelStep(t)
    /\ pc' = [pc EXCEPT ![t] = "cancelled"]
    /\ IF pc[t] = "sleeping"
       THEN UNCHANGED <<lock, waiters>>
       ELSE /\ waiters' = SelectSeq(waiters, LAMBDA w : w # t)
            /\ UNCHANGED lock
    /\ ticket' = [ticket EXCEPT ![t] = 0]
    /\ UNCHANGED <<constructed, max_calls, time_period, calls, wake_at, clock,
                   issued, admitted, returned, changed, served>>
    /\ UNCHANGED outside_limiter

\* the task is cancelled at the await it is suspended in: CancelledError
\* leaves the `async with` block, or the queue of the lock
Cancel(t) ==
    /\ pc[t] \in {"queued", "sleeping"}
    /\ last' = CancelStep(t)
    /\ pc' = [pc EXCEPT ![t] = "cancelled"]
    /\ IF pc[t] = "sleeping"
       THEN lock' = NoTask /\ UNCHANGED waiters
       ELSE /\ waiters' = SelectSeq(waiters, LAMBDA w : w # t)
            /\ UNCHANGED lock
    /\ ticket' = [ticket EXCEPT ![t] = 0]
    /\ UNCHANGED <<constructed, max_calls, time_period, calls, wake_at, clock,
                   issued, admitted, returned, changed, served>>
    /\ UNCHANGED outside_limiter

\* time passes
Tick ==
    /\ clock < MaxTime
    /\ clock' = clock + 1
    /\ last' = Step("tick", NoTask)
    /\ UNCHANGED <<constructed, max_calls, time_period, calls, lock, waiters,
                   pc, wake_at, issued, admitted, returned, changed, ticket,
                   served>>
    /\ UNCHANGED outside_limiter

\* time passes only when no task is ready to run: steps take no time and
\* a sleep ends when it is due
Ready == \E t \in Tasks : CanResume(t) \/ CanWake(t)

TickPrompt == ~Ready /\ Tick

Init ==
    /\ constructed = FALSE
    /\ max_calls = 0
    /\ time_period = 0
    /\ calls = <<>>
    /\ lock = NoTask
    /\ waiters = <<>>
    /\ pc = [t \in Tasks |-> "idle"]
    /\ wake_at = [t \in Tasks |-> 0]
    /\ clock = 0
    /\ issued = 0
    /\ admitted = <<>>
    /\ returned = 0
    /\ changed = [t \in Tasks |-> FALSE]
    /\ last = NoStep
    /\ ticket = [t \in Tasks |-> 0]
    /\ served = 0
    /\ ItemsStart
    /\ FactStart
    /\ PairStart
    /\ RpcStart

Construct == \E mc \in MaxCallsValues, tp \in PeriodValues : New(mc, tp)

Run ==
    \/ Construct
    \/ \E t \in Tasks : Call(t)
    \/ \E t \in Tasks : Resume(t)
    \/ \E t \in Tasks : Wake(t)
    \/ \E t \in Tasks : Cancel(t)

Next == Run \/ Tick

Spec == Init /\ [][Next]_vars

NextPrompt == Run \/ TickPrompt

SpecPrompt == Init /\ [][NextPrompt]_vars

Fairness ==
    /\ WF_vars(TickPrompt)
    /\ \A t \in Tasks : WF_vars(Resume(t)) /\ WF_vars(Wake(t))

SpecFair == Init /\ [][NextPrompt]_vars /\ Fairness

\* time.time() is the system's wall clock, which the system may set back
\* by any amount.  Here it does so between the calls only, when no caller
\* is suspended in acquire().
SetBack ==
    /\ constructed
    /\ \A t \in Tasks : ~(pc[t] \in {"queued", "sleeping"})
    /\ \E d \in 1..clock : clock' = clock - d
    /\ last' = Step("set_back", NoTask)
    /\ UNCHANGED <<constructed, max_calls, time_period, calls, lock, waiters,
                   pc, wake_at, issued, admitted, returned, changed, ticket,
                   served>>
    /\ UNCHANGED outside_limiter

NextWallClock == Run \/ Tick \/ SetBack

SpecWallClock == Init /\ [][NextWallClock]_vars

\* ------------------------------------------------------------------ main

\* main(): 20 tasks on a limiter of 5 calls per 2 seconds
DemoCount == 20
DemoMaxCalls == 5
DemoPeriod == 2
DemoMaxTime == 10

DemoTasks == 1..DemoCount

\* line 62 has run: the limiter exists, no task has started
DemoInit ==
    /\ constructed = TRUE
    /\ max_calls = DemoMaxCalls
    /\ time_period = DemoPeriod
    /\ calls = <<>>
    /\ lock = NoTask
    /\ waiters = <<>>
    /\ pc = [t \in DemoTasks |-> "idle"]
    /\ wake_at = [t \in DemoTasks |-> 0]
    /\ clock = 0
    /\ issued = 0
    /\ admitted = <<>>
    /\ returned = 0
    /\ changed = [t \in DemoTasks |-> FALSE]
    /\ last = NoStep
    /\ ticket = [t \in DemoTasks |-> 0]
    /\ served = 0
    /\ ItemsStart
    /\ FactStart
    /\ PairStart
    /\ RpcStart

\* asyncio.gather starts the tasks in list order, each running up to its
\* first await, before any time passes
DemoCall(t) ==
    /\ pc[t] = "idle"
    /\ \A u \in DemoTasks : u < t => pc[u] # "idle"
    /\ clock = 0
    /\ Acquire(t)

\* perform_task, lines 50-58: the work after acquire(), under a second long
DemoFinish(t) ==
    /\ pc[t] = "done"
    /\ pc' = [pc EXCEPT ![t] = "finished"]
    /\ last' = Step("finish", t)
    /\ UNCHANGED <<constructed, max_calls, time_period, calls, lock, waiters,
                   wake_at, clock, issued, admitted, returned, changed, ticket,
                   served>>
    /\ UNCHANGED outside_limiter

DemoReady ==
    \E t \in DemoTasks : pc[t] \in {"idle", "done"} \/ CanResume(t) \/ CanWake(t)

\* time passes when every task is suspended or finished
DemoTick ==
    /\ ~DemoReady
    /\ clock < DemoMaxTime
    /\ clock' = clock + 1
    /\ last' = Step("tick", NoTask)
    /\ UNCHANGED <<constructed, max_calls, time_period, calls, lock, waiters,
                   pc, wake_at, issued, admitted, returned, changed, ticket,
                   served>>
    /\ UNCHANGED outside_limiter

DemoNext ==
    \/ \E t \in DemoTasks : DemoCall(t)
    \/ \E t \in DemoTasks : Resume(t)
    \/ \E t \in DemoTasks : Wake(t)
    \/ \E t \in DemoTasks : DemoFinish(t)
    \/ DemoTick

SpecDemo == DemoInit /\ [][DemoNext]_vars

\* ---------------------------------------------------------------- app.py

\* the request bodies tried: two that the Item model accepts, one without
\* an id and one with an id of its own, and three that it rejects (an empty
\* name, a price of 0, a negative quantity); prices in hundredths
TestItem ==
    [id |-> 0, name |-> "Test Item", description |-> "This is a test item",
     price |-> 9999, quantity |-> 5]

UpdatedItem ==
    [id |-> 1, name |-> "Updated Item",
     description |-> "This item has been updated", price |-> 7500,
     quantity |-> 0]

Bodies ==
    {TestItem, UpdatedItem,
     [TestItem EXCEPT !.name = ""],
     [TestItem EXCEPT !.price = 0],
     [UpdatedItem EXCEPT !.quantity = -1]}

\* the length of a name, as far as min_length=1 needs it
NameLen(name) == IF name = "" THEN 0 ELSE 1

\* Field(..., min_length=1), Field(..., gt=0), Field(..., ge=0)
ValidItem(item) == NameLen(item.name) >= 1 /\ item.price > 0 /\ item.quantity >= 0

ItemIds(db) == {db[i].id : i \in DOMAIN db}

Max(S) == CHOOSE m \in S : \A x \in S : x <= m

\* an id taken from the length of the list
get_next_id_by_length(db) == Len(db) + 1

\* get_next_id, lines 68-69
get_next_id(db) == IF db # <<>> THEN Max(ItemIds(db)) + 1 ELSE 1

\* the loops of lines 93, 120 and 138: the first position holding the id,
\* 0 when there is none
Find(db, id) ==
    IF \E i \in DOMAIN db : db[i].id = id
    THEN CHOOSE i \in DOMAIN db :
            db[i].id = id /\ \A j \in DOMAIN db : db[j].id = id => i <= j
    ELSE 0

\* get_item, lines 93-98
Lookup(db, id) ==
    IF Find(db, id) # 0
    THEN [status |-> 200, body |-> db[Find(db, id)]]
    ELSE [status |-> 404, body |-> NoItem]

\* an update that keeps the id of the body when it has one
KeepBodyId(item, id) == IF item.id # 0 THEN item ELSE [item EXCEPT !.id = id]

\* lines 106-107 and 123-124: item.dict() with the id overwritten
WithId(item, id) == [item EXCEPT !.id = id]

\* a deletion that drops the last item
RemoveLast(db, i) == SubSeq(db, 1, Len(db) - 1)

\* line 141: del items_db[i]
Remove(db, i) == SubSeq(db, 1, i - 1) \o SubSeq(db, i + 1, Len(db))

Rejected == [status |-> 422, body |-> NoItem]

\* GET /items/{item_id}
get_item(item_id) ==
    /\ request' = [op |-> "get", id |-> item_id, body |-> NoItem]
    /\ response' = Lookup(items_db, item_id)
    /\ UNCHANGED <<items_db, created, deleted>>
    /\ UNCHANGED outside_items

\* POST /items
create_item(item) ==
    /\ Len(items_db) < MaxItems
    /\ get_next_id(items_db) <= MaxId
    /\ request' = [op |-> "create", id |-> 0, body |-> item]
    /\ IF ~ValidItem(item)
       THEN /\ response' = Rejected
            /\ UNCHANGED <<items_db, created, deleted>>
       ELSE LET new_item == WithId(item, get_next_id(items_db))
            IN  /\ items_db' = Append(items_db, new_item)
                /\ response' = [status |-> 201, body |-> new_item]
                /\ created' = [created EXCEPT ![new_item.id] = new_item]
                /\ deleted' = deleted \ {new_item.id}
    /\ UNCHANGED outside_items

\* PUT /items/{item_id}
update_item(item_id, item) ==
    /\ request' = [op |-> "update", id |-> item_id, body |-> item]
    /\ IF ~ValidItem(item)
       THEN /\ response' = Rejected
            /\ UNCHANGED <<items_db, created, deleted>>
       ELSE LET i == Find(items_db, item_id)
                updated_item == WithId(item, item_id)
            IN  IF i # 0
                THEN /\ items_db' = [items_db EXCEPT ![i] = updated_item]
                     /\ response' = [status |-> 200, body |-> updated_item]
                     /\ created' = [created EXCEPT ![item_id] = NoItem]
                     /\ UNCHANGED deleted
                ELSE /\ response' = [status |-> 404, body |-> NoItem]
                     /\ UNCHANGED <<items_db, created, deleted>>
    /\ UNCHANGED outside_items

\* DELETE /items/{item_id}
delete_item(item_id) ==
    /\ request' = [op |-> "delete", id |-> item_id, body |-> NoItem]
    /\ LET i == Find(items_db, item_id)
       IN  IF i # 0
           THEN /\ items_db' = Remove(items_db, i)
                /\ response' = [status |-> 204, body |-> NoItem]
                /\ created' = [created EXCEPT ![item_id] = NoItem]
                /\ deleted' = deleted \cup {item_id}
           ELSE /\ response' = [status |-> 404, body |-> NoItem]
                /\ UNCHANGED <<items_db, created, deleted>>
    /\ UNCHANGED outside_items

\* the state of the other programs, which the items API never touches
LimiterStart ==
    /\ constructed = FALSE
    /\ max_calls = 0
    /\ time_period = 0
    /\ calls = <<>>
    /\ lock = NoTask
    /\ waiters = <<>>
    /\ pc = [t \in Tasks |-> "idle"]
    /\ wake_at = [t \in Tasks |-> 0]
    /\ clock = 0
    /\ issued = 0
    /\ admitted = <<>>
    /\ returned = 0
    /\ changed = [t \in Tasks |-> FALSE]
    /\ last = NoStep
    /\ ticket = [t \in Tasks |-> 0]
    /\ served = 0

ItemsInit == ItemsStart /\ LimiterStart /\ FactStart /\ PairStart /\ RpcStart

ItemsNext ==
    \/ \E item_id \in Ids : get_item(item_id)
    \/ \E item \in Bodies : create_item(item)
    \/ \E item_id \in Ids, item \in Bodies : update_item(item_id, item)
    \/ \E item_id \in Ids : delete_item(item_id)

SpecItems == ItemsInit /\ [][ItemsNext]_vars

\* ------------------------------------------------------- challenge_8.py
MaxFactArg == 20
MaxNegative == 5

\* Python's int has no upper limit: a non-negative int is the sequence of
\* its digits in base Base, lowest first
Base == 1000000

One == <<1>>

RECURSIVE MulCarry(_, _, _)
MulCarry(v, n, carry) ==
    IF v = <<>>
    THEN IF carry = 0 THEN <<>> ELSE <<carry % Base>> \o MulCarry(<<>>, n, carry \div Base)
    ELSE LET p == Head(v) * n + carry
         IN  <<p % Base>> \o MulCarry(Tail(v), n, p \div Base)

\* a product that takes n - 1 for n
TimesPrevious(n, v) == MulCarry(v, n - 1, 0)

\* line 30: n * factorial(n - 1)
Times(n, v) == MulCarry(v, n, 0)

\* the arguments tried: the integers from -MaxNegative to MaxFactArg, True
\* and False, 2.5, -2.5, 3.0 and "3"
FactArgs ==
    {PyInt(k) : k \in (0 - MaxNegative)..MaxFactArg}
        \cup {[kind |-> "bool", value |-> b] : b \in {0, 1}}
        \cup {[kind |-> "float", value |-> f] : f \in {25, -25, 30}}
        \cup {[kind |-> "str", value |-> 3]}

\* isinstance(n, int): bool is a subclass of int
IsInstanceInt(x) == x.kind \in {"int", "bool"}

\* the sign checked before the type
CheckSignFirst(x) ==
    IF x.kind # "str" /\ x.value < 0 THEN "ValueError"
    ELSE IF ~IsInstanceInt(x) THEN "TypeError"
    ELSE ""

\* lines 18-23
Check(x) ==
    IF ~IsInstanceInt(x) THEN "TypeError"
    ELSE IF x.value < 0 THEN "ValueError"
    ELSE ""

\* line 26
BaseCase(x) == x.value = 0 \/ x.value = 1

FactRaise(error) ==
    /\ fact_pc' = "raised"
    /\ fact_error' = error
    /\ fact_stack' = <<>>
    /\ fact_value' = <<>>

\* factorial(x) is called from outside
FactCall(x) ==
    /\ fact_pc \in {"idle", "returned", "raised"}
    /\ fact_arg' = x
    /\ fact_stack' = <<x>>
    /\ fact_pc' = "calling"
    /\ fact_value' = <<>>
    /\ fact_error' = ""
    /\ UNCHANGED outside_factorial

\* lines 18-30 in the innermost call, up to its return or its own call
FactEnter ==
    /\ fact_pc = "calling"
    /\ LET n == fact_stack[Len(fact_stack)]
       IN  IF Check(n) # ""
           THEN FactRaise(Check(n))
           ELSE IF BaseCase(n)
                THEN /\ fact_value' = One
                     /\ fact_stack' = SubSeq(fact_stack, 1, Len(fact_stack) - 1)
                     /\ fact_pc' = IF Len(fact_stack) = 1 THEN "returned" ELSE "returning"
                     /\ UNCHANGED fact_error
                ELSE /\ fact_stack' = Append(fact_stack, PyInt(n.value - 1))
                     /\ UNCHANGED <<fact_pc, fact_value, fact_error>>
    /\ UNCHANGED fact_arg
    /\ UNCHANGED outside_factorial

\* line 30: the inner call has returned, the product is returned
FactReturn ==
    /\ fact_pc = "returning"
    /\ LET n == fact_stack[Len(fact_stack)]
       IN  /\ fact_value' = Times(n.value, fact_value)
           /\ fact_stack' = SubSeq(fact_stack, 1, Len(fact_stack) - 1)
           /\ fact_pc' = IF Len(fact_stack) = 1 THEN "returned" ELSE "returning"
    /\ UNCHANGED <<fact_arg, fact_error>>
    /\ UNCHANGED outside_factorial

FactInit == FactStart /\ LimiterStart /\ ItemsStart /\ PairStart /\ RpcStart

FactNext ==
    \/ \E x \in FactArgs : FactCall(x)
    \/ FactEnter
    \/ FactReturn

SpecFactorial == FactInit /\ [][FactNext]_vars

\* ------------------------------------- challenge_6.py: two limiters
\* Two AsyncRateLimiter objects in one event loop, each task calling
\* acquire() once on one of them.  Every attribute is set on self (lines
\* 14-17), so each object has its own.

\* the configurations tried: the valid ones
PairMaxCalls == 1..MaxMaxCalls
PairPeriods == 1..MaxPeriod

\* attributes kept on the class, which every object shares
PutShared(l, self) == [k \in Limiters |-> self]

\* an assignment to the attributes of one object
Put(l, self) == [limiters EXCEPT ![l] = self]

\* lines 28-29 and 40-41 on the object self
PairPrune(self, now) ==
    SelectSeq(self.calls, LAMBDA timestamp : timestamp > now - self.time_period)

PairStep(op, t, l) == [op |-> op, task |-> t, on |-> l]

\* __init__ of one of the two objects, before the tasks start as in main()
PairNew(l, mc, tp) ==
    /\ ~limiters[l].made
    /\ pair_clock = 0
    /\ \A t \in Tasks : callers[t].pc = "idle"
    /\ limiters' = Put(l, [made |-> TRUE, max_calls |-> mc, time_period |-> tp,
                           calls |-> <<>>, lock |-> NoTask, waiters |-> <<>>])
    /\ pair_last' = PairStep("new", NoTask, l)
    /\ UNCHANGED <<callers, pair_clock>>
    /\ UNCHANGED outside_pair

\* lines 25-44 up to the first await, run on limiter l by the task that got
\* its lock, with waiting the tasks still queued for it
PairBody(t, l, waiting) ==
    LET self == [limiters[l] EXCEPT !.waiters = waiting]
        now == pair_clock
        log == PairPrune(self, now)
    IN  IF Len(log) >= self.max_calls
        THEN IF log = <<>>
             THEN /\ limiters' = Put(l, [self EXCEPT !.calls = log, !.lock = NoTask])
                  /\ callers' = [callers EXCEPT ![t] =
                                    [pc |-> "error", on |-> l, wake_at |-> 0]]
             ELSE IF log[1] + self.time_period - now > 0
                  THEN /\ limiters' = Put(l, [self EXCEPT !.calls = log, !.lock = t])
                       /\ callers' = [callers EXCEPT ![t] =
                                         [pc |-> "sleeping", on |-> l,
                                          wake_at |-> log[1] + self.time_period]]
                  ELSE /\ limiters' = Put(l, [self EXCEPT !.calls = Append(log, now),
                                                          !.lock = NoTask])
                       /\ callers' = [callers EXCEPT ![t] =
                                         [pc |-> "done", on |-> l, wake_at |-> 0]]
        ELSE /\ limiters' = Put(l, [self EXCEPT !.calls = Append(log, now),
                                                !.lock = NoTask])
             /\ callers' = [callers EXCEPT ![t] =
                               [pc |-> "done", on |-> l, wake_at |-> 0]]

\* a task calls acquire() on limiter l
PairCall(t, l) ==
    /\ \A k \in Limiters : limiters[k].made
    /\ callers[t].pc = "idle"
    /\ pair_clock <= MaxCallTime
    /\ pair_last' = PairStep("call", t, l)
    /\ IF limiters[l].lock = NoTask /\ limiters[l].waiters = <<>>
       THEN PairBody(t, l, <<>>)
       ELSE /\ limiters' = Put(l, [limiters[l] EXCEPT
                                      !.waiters = Append(limiters[l].waiters, t)])
            /\ callers' = [callers EXCEPT ![t] =
                              [pc |-> "queued", on |-> l, wake_at |-> 0]]
    /\ UNCHANGED pair_clock
    /\ UNCHANGED outside_pair

\* the released lock of l goes to the task queued longest for it
PairResume(t) ==
    LET l == callers[t].on
    IN  /\ callers[t].pc = "queued"
        /\ limiters[l].lock = NoTask
        /\ Head(limiters[l].waiters) = t
        /\ pair_last' = PairStep("resume", t, l)
        /\ PairBody(t, l, Tail(limiters[l].waiters))
        /\ UNCHANGED pair_clock
        /\ UNCHANGED outside_pair

\* lines 39-44: the sleep is over
PairWake(t) ==
    LET l == callers[t].on
        self == limiters[l]
    IN  /\ callers[t].pc = "sleeping"
        /\ pair_clock >= callers[t].wake_at
        /\ pair_last' = PairStep("wake", t, l)
        /\ limiters' = Put(l, [self EXCEPT
                                  !.calls = Append(PairPrune(self, pair_clock), pair_clock),
                                  !.lock = NoTask])
        /\ callers' = [callers EXCEPT ![t] = [pc |-> "done", on |-> l, wake_at |-> 0]]
        /\ UNCHANGED pair_clock
        /\ UNCHANGED outside_pair

\* the task is cancelled at the await it is suspended in
PairCancel(t) ==
    LET l == callers[t].on
        self == limiters[l]
    IN  /\ callers[t].pc \in {"queued", "sleeping"}
        /\ pair_last' = PairStep("cancel", t, l)
        /\ limiters' =
              IF callers[t].pc = "sleeping"
              THEN Put(l, [self EXCEPT !.lock = NoTask])
              ELSE Put(l, [self EXCEPT
                              !.waiters = SelectSeq(self.waiters, LAMBDA w : w # t)])
        /\ callers' = [callers EXCEPT ![t] =
                          [pc |-> "cancelled", on |-> l, wake_at |-> 0]]
        /\ UNCHANGED pair_clock
        /\ UNCHANGED outside_pair

\* time passes
PairTick ==
    /\ pair_clock < MaxCallTime + MaxPeriod
    /\ pair_clock' = pair_clock + 1
    /\ pair_last' = PairStep("tick", NoTask, NoLimiter)
    /\ UNCHANGED <<limiters, callers>>
    /\ UNCHANGED outside_pair

PairInit == PairStart /\ LimiterStart /\ ItemsStart /\ FactStart /\ RpcStart

PairNext ==
    \/ \E l \in Limiters, mc \in PairMaxCalls, tp \in PairPeriods : PairNew(l, mc, tp)
    \/ \E t \in Tasks, l \in Limiters : PairCall(t, l)
    \/ \E t \in Tasks : PairResume(t)
    \/ \E t \in Tasks : PairWake(t)
    \/ \E t \in Tasks : PairCancel(t)
    \/ PairTick

SpecPair == PairInit /\ [][PairNext]_vars

\* ------------------------------------------- challenge_12_server.py
\* CalculatorServicer: GeneratePrimes and CalculateFactorial are generators;
\* every step below is one pass of the generator's loop, or its first
\* statements up to the loop.
MaxLimit == 125

\* the limits and numbers requested
Limits == (0 - MaxNegative)..MaxLimit
Numbers == (0 - MaxNegative)..MaxFactArg

\* lines 94-99: the while loop of _is_prime, from divisor i on
RECURSIVE TrialDivision(_, _)
TrialDivision(n, i) ==
    IF i * i <= n
    THEN IF n % i = 0 \/ n % (i + 2) = 0
         THEN FALSE
         ELSE TrialDivision(n, i + 6)
    ELSE TRUE

\* a test that tries the divisors 5, 11, 17, ... only
is_prime_sparse(n) ==
    IF n <= 1 THEN FALSE
    ELSE IF n <= 3 THEN TRUE
    ELSE IF n % 2 = 0 \/ n % 3 = 0 THEN FALSE
    ELSE \A k \in 0..n : (5 + 6 * k) * (5 + 6 * k) <= n => n % (5 + 6 * k) # 0

\* _is_prime, lines 84-99
is_prime(n) ==
    IF n <= 1 THEN FALSE
    ELSE IF n <= 3 THEN TRUE
    ELSE IF n % 2 = 0 \/ n % 3 = 0 THEN FALSE
    ELSE TrialDivision(n, 5)

PrimeResponse(prime, position) == [prime |-> prime, position |-> position]

FactorialResponse(result, step, is_final) ==
    [result |-> result, step |-> step, is_final |-> is_final]

\* a final flag raised one step early
IsFinalEarly(i, number) == i + 1 = number

\* line 78
IsFinal(i, number) == i = number

\* a call arrives: the method starts with its request
RpcCall(method, arg) ==
    /\ rpc_pc \in {"idle", "done"}
    /\ rpc_method' = method
    /\ rpc_arg' = arg
    /\ rpc_pc' = "running"
    /\ rpc_locals' = NoLocals
    /\ rpc_stream' = <<>>
    /\ rpc_code' = "OK"
    /\ UNCHANGED outside_rpc

\* GeneratePrimes, lines 13-22: the check of the limit, then the loop starts
PrimesStart ==
    /\ rpc_method = "GeneratePrimes"
    /\ rpc_pc = "running"
    /\ rpc_locals = NoLocals
    /\ IF rpc_arg < 2
       THEN /\ rpc_code' = "INVALID_ARGUMENT"
            /\ rpc_pc' = "done"
            /\ UNCHANGED rpc_locals
       ELSE /\ rpc_locals' = [NoLocals EXCEPT !.number = 2]
            /\ UNCHANGED <<rpc_code, rpc_pc>>
    /\ UNCHANGED <<rpc_method, rpc_arg, rpc_stream>>
    /\ UNCHANGED outside_rpc

\* GeneratePrimes, lines 22-26: one pass of the loop, or its end
PrimesStep ==
    /\ rpc_method = "GeneratePrimes"
    /\ rpc_pc = "running"
    /\ rpc_locals # NoLocals
    /\ LET number == rpc_locals.number
           count == rpc_locals.count
       IN  IF number > rpc_arg
           THEN /\ rpc_pc' = "done"
                /\ UNCHANGED <<rpc_locals, rpc_stream>>
           ELSE IF is_prime(number)
                THEN /\ rpc_stream' = Append(rpc_stream, PrimeResponse(number, count + 1))
                     /\ rpc_locals' = [rpc_locals EXCEPT !.number = number + 1,
                                                         !.count = count + 1]
                     /\ UNCHANGED rpc_pc
                ELSE /\ rpc_locals' = [rpc_locals EXCEPT !.number = number + 1]
                     /\ UNCHANGED <<rpc_stream, rpc_pc>>
    /\ UNCHANGED <<rpc_method, rpc_arg, rpc_code>>
    /\ UNCHANGED outside_rpc

\* CalculateFactorial, lines 63-76: the checks of the number, then the loop
\* starts
FactorialStart ==
    /\ rpc_method = "CalculateFactorial"
    /\ rpc_pc = "running"
    /\ rpc_locals = NoLocals
    /\ IF rpc_arg < 0
       THEN /\ rpc_code' = "INVALID_ARGUMENT"
            /\ rpc_pc' = "done"
            /\ UNCHANGED <<rpc_locals, rpc_stream>>
       ELSE IF rpc_arg = 0 \/ rpc_arg = 1
            THEN /\ rpc_stream' = Append(rpc_stream, FactorialResponse(One, rpc_arg, TRUE))
                 /\ rpc_pc' = "done"
                 /\ UNCHANGED <<rpc_locals, rpc_code>>
            ELSE /\ rpc_locals' = [NoLocals EXCEPT !.result = One, !.i = 1]
                 /\ UNCHANGED <<rpc_stream, rpc_pc, rpc_code>>
    /\ UNCHANGED <<rpc_method, rpc_arg>>
    /\ UNCHANGED outside_rpc

\* CalculateFactorial, lines 76-80: one pass of the loop, or its end
FactorialStep ==
    /\ rpc_method = "CalculateFactorial"
    /\ rpc_pc = "running"
    /\ rpc_locals # NoLocals
    /\ LET i == rpc_locals.i
           result == Times(i, rpc_locals.result)
       IN  IF i > rpc_arg
           THEN /\ rpc_pc' = "done"
                /\ UNCHANGED <<rpc_locals, rpc_stream>>
           ELSE /\ rpc_stream' = Append(rpc_stream,
                                        FactorialResponse(result, i, IsFinal(i, rpc_arg)))
                /\ rpc_locals' = [rpc_locals EXCEPT !.result = result, !.i = i + 1]
                /\ UNCHANGED rpc_pc
    /\ UNCHANGED <<rpc_method, rpc_arg, rpc_code>>
    /\ UNCHANGED outside_rpc

RpcInit == RpcStart /\ LimiterStart /\ ItemsStart /\ FactStart /\ PairStart

RpcNext ==
    \/ \E limit \in Limits : RpcCall("GeneratePrimes", limit)
    \/ \E number \in Numbers : RpcCall("CalculateFactorial", number)
    \/ PrimesStart
    \/ PrimesStep
    \/ FactorialStart
    \/ FactorialStep

SpecRpc == RpcInit /\ [][RpcNext]_vars

\* ------------------------------------------------------------ properties

ValidConfiguration == constructed /\ max_calls >= 1 /\ time_period > 0

\* the instants that have passed: no admission is stamped later than the
\* clock, so the window of a later instant holds no more than the window
\* at the clock, and every instant is the clock of some state
Instants == 0..clock

\* the number of admissions whose timestamp lies in (t - time_period, t]
InWindow(t) ==
    Len(SelectSeq(admitted, LAMBDA a : a > t - time_period /\ a <= t))

Pending(t) == pc[t] \in {"queued", "sleeping"}

Entered == last.op \in {"call", "resume"} /\ pc[last.task] # "queued"

\* C1: on a limiter with max_calls >= 1 and time_period > 0, at every
\* instant t at most max_calls admissions have their timestamp in the
\* trailing window (t - time_period, t].
C1_RateLimit ==
    ValidConfiguration => \A t \in Instants : InWindow(t) <= max_calls

\* a window was full, and a later admission had to wait for room in it
C1_Witness ==
    /\ ValidConfiguration
    /\ last.op = "wake"
    /\ max_calls >= 2
    /\ Len(admitted) > max_calls
    /\ InWindow(clock) = max_calls

\* C2: a limiter with max_calls <= 0 or time_period <= 0 is never
\* constructed: the constructor fails with InvalidConfiguration.
C2_InvalidConfigurationRejected ==
    constructed => (max_calls >= 1 /\ time_period > 0)

C4_CancelLeavesLog ==
    /\ \A t \in Tasks : (Pending(t) \/ pc[t] = "cancelled") => ~changed[t]
    /\ last.op \in {"cancel_sleep", "cancel_wait"} => calls = last.before

\* a caller was cancelled in its sleep, with timestamps in the log
C4_Witness ==
    /\ last.op = "cancel_sleep"
    /\ pc[last.task] = "cancelled"
    /\ Len(calls) >= 2

\* C5: a cancelled caller holds no lock and is in no queue, and every other
\* pending caller is still admitted in the end, unless cancelled itself.
C5_CancelNoDeadlock ==
    /\ [](\A t \in Tasks :
             pc[t] = "cancelled"
                 => (lock # t /\ \A i \in DOMAIN waiters : waiters[i] # t))
    /\ \A t \in Tasks :
          (Pending(t) /\ \E u \in Tasks : pc[u] = "cancelled")
              ~> (pc[t] \in {"done", "cancelled"})

\* a sleeping caller was cancelled while others were queued behind it
C5_Witness ==
    /\ last.op = "cancel_sleep"
    /\ waiters # <<>>
    /\ lock = NoTask

\* C6: every acquire() that returns has appended exactly one timestamp, the
\* current time, whether it waited or not; so the number of timestamps ever
\* appended is the number of calls that returned.
C6_OneTimestampPerCall ==
    /\ Len(admitted) = returned
    /\ (last.op \in {"call", "resume", "wake"} /\ pc[last.task] = "done")
          => calls = Append(Prune(last.before, last.at), last.at)
    /\ (last.op \in {"call", "resume", "wake"} /\ pc[last.task] # "done")
          => Len(calls) <= Len(last.before)

\* a call returned after waiting, following other calls
C6_Witness ==
    /\ last.op = "wake"
    /\ pc[last.task] = "done"
    /\ returned >= 2

\* C7: on a limiter with max_calls >= 1 and time_period > 0, every pending
\* acquire() returns in the end, unless it is cancelled.
C7_NoStarvation ==
    \A t \in Tasks :
        (ValidConfiguration /\ Pending(t)) ~> (pc[t] \in {"done", "cancelled"})

\* all the calls were made, every one returned, the last after a wait
C7_Witness ==
    /\ ValidConfiguration
    /\ issued = MaxAcquires
    /\ returned = MaxAcquires
    /\ last.op = "wake"

\* C8: time does not pass while a caller is pending and the window has
\* room: a pending caller is admitted at the instant the oldest timestamp
\* leaves the window, and a sleep ends exactly then.
C8_NoNeedlessWait ==
    [][clock' # clock =>
          /\ ~(ValidConfiguration /\ (\E t \in Tasks : Pending(t))
                   /\ InWindow(clock) < max_calls)
          /\ \A t \in Tasks :
                pc[t] = "sleeping"
                    => (clock < wake_at[t] /\ wake_at[t] = calls[1] + time_period)]_vars

\* a sleeper was released at the instant the oldest timestamp expired,
\* ahead of a queued caller
C8_Witness ==
    /\ last.op = "wake"
    /\ last.at = last.before[1] + time_period
    /\ waiters # <<>>

\* C9: with max_calls = 1, successive admissions are at least time_period
\* apart.
C9_Cooldown ==
    (ValidConfiguration /\ max_calls = 1)
        => \A i \in 1..(Len(admitted) - 1) :
              admitted[i + 1] - admitted[i] >= time_period

\* three admissions in a row, by tasks calling one after the other
C9_Witness ==
    /\ ValidConfiguration
    /\ max_calls = 1
    /\ time_period = MaxPeriod
    /\ Len(admitted) >= 3

\* C10: with max_calls = 1, a caller entering the critical section when
\* the only logged timestamp is exactly time_period old is admitted in that
\* step, without sleeping, and the old timestamp is pruned.
C10_BoundaryPruned ==
    (ValidConfiguration /\ max_calls = 1 /\ Entered
        /\ last.before = <<last.at - time_period>>)
        => (pc[last.task] = "done" /\ calls = <<last.at>>)

\* a caller was admitted at once over a timestamp exactly time_period old
C10_Witness ==
    /\ ValidConfiguration
    /\ max_calls = 1
    /\ Entered
    /\ last.before = <<last.at - time_period>>
    /\ pc[last.task] = "done"

\* C11: in main(), with 5 calls per 2 seconds and 20 calls made at time 0,
\* the admissions come in groups of at most 5 per period: the i-th one not
\* before period (i - 1) \div 5; all 20 are admitted, the last one at an
\* elapsed time of at least 6 and less than 8.
C11_DemoSpread ==
    /\ \A i \in DOMAIN admitted :
          admitted[i] >= ((i - 1) \div DemoMaxCalls) * DemoPeriod
    /\ returned = DemoCount
          => /\ admitted[DemoCount] >= 3 * DemoPeriod
             /\ admitted[DemoCount] < 4 * DemoPeriod
    /\ clock >= 4 * DemoPeriod => returned = DemoCount

\* the twentieth task was admitted, after 6 seconds
C11_Witness ==
    /\ returned = DemoCount
    /\ Len(admitted) = DemoCount
    /\ admitted[DemoCount] = 3 * DemoPeriod
    /\ \A t \in DemoTasks : pc[t] = "finished"
    /\ clock = DemoMaxTime

Returned == last.op \in {"call", "resume", "wake"} /\ pc[last.task] = "done"

\* C12: when an acquire() returns, self.calls holds at most max_calls
\* timestamps, all of them within the window ending at that admission, and
\* the log the timestamp was appended to, pruned, held fewer than max_calls:
\* also for a caller waking from its sleep with others waiting behind it.
C12_WindowAtReturn ==
    (ValidConfiguration /\ Returned)
        => /\ Len(calls) <= max_calls
           /\ \A i \in DOMAIN calls :
                 calls[i] > last.at - time_period /\ calls[i] <= last.at
           /\ Len(Prune(last.before, last.at)) < max_calls
           /\ calls[Len(calls)] = last.at

\* a caller woke from its sleep and filled the window, others queued behind
C12_Witness ==
    /\ ValidConfiguration
    /\ Returned
    /\ last.op = "wake"
    /\ Len(calls) = max_calls
    /\ waiters # <<>>

\* C13: callers are admitted in the order of their calls: no call is
\* admitted while a call made before it is pending, and the timestamps of
\* successive admissions never decrease.
C13_FirstComeFirstServed ==
    /\ \A t \in Tasks : Pending(t) => ticket[t] > served
    /\ \A i \in 1..(Len(admitted) - 1) : admitted[i] <= admitted[i + 1]

\* a caller that had to sleep was admitted while a later caller was
\* queued, and a third call had been served before
C13_Witness ==
    /\ last.op = "wake"
    /\ pc[last.task] = "done"
    /\ served >= 2
    /\ \E t \in Tasks : pc[t] = "queued" /\ ticket[t] > served

Holds(t) ==
    \/ lock = t
    \/ lock = NoTask /\ pc[t] # "sleeping" /\ (waiters = <<>> \/ Head(waiters) = t)

\* C14: self.calls changes only in a step of the one task that holds the
\* lock or is taking the free lock; at most one task is inside the block;
\* and of the callers entering with one free slot in the window the first
\* is admitted, while one entering a full window is not and sleeps.
C14_LockSerializes ==
    [][/\ (constructed /\ calls' # calls)
            => (last'.op \in {"call", "resume", "wake"} /\ Holds(last'.task))
       /\ Cardinality({t \in Tasks : pc'[t] = "sleeping"}) <= 1
       /\ (ValidConfiguration /\ last'.op \in {"call", "resume"}
             /\ pc'[last'.task] # "queued")
            => IF Len(Prune(calls, clock)) < max_calls
               THEN pc'[last'.task] = "done"
               ELSE pc'[last'.task] = "sleeping" /\ lock' = last'.task
                       /\ admitted' = admitted]_vars

\* the window had one free slot and two callers: the first took it, the
\* second found the window full and sleeps
C14_Witness ==
    /\ ValidConfiguration
    /\ last.op \in {"call", "resume"}
    /\ pc[last.task] = "sleeping"
    /\ Len(calls) = max_calls
    /\ calls[Len(calls)] = last.at
    /\ max_calls >= 2

\* the number of admissions whose timestamp lies in [t - time_period, t]
InClosedWindow(t) ==
    Len(SelectSeq(admitted, LAMBDA a : a >= t - time_period /\ a <= t))

\* the number of admissions whose timestamp is t
AtInstant(t) == Len(SelectSeq(admitted, LAMBDA a : a = t))

\* C15 as stated: at every instant t at most max_calls admissions have
\* their timestamp in the closed window [t - time_period, t].
C15_ClosedWindow ==
    ValidConfiguration => \A t \in Instants : InClosedWindow(t) <= max_calls

\* C15 as amended: the closed window [t - time_period, t] holds at most
\* max_calls admissions apart from those made exactly at t - time_period,
\* which the limiter no longer counts (and which are at most max_calls).
C15_HalfOpenWindow ==
    ValidConfiguration
        => \A t \in Instants :
              /\ InClosedWindow(t) <= max_calls + AtInstant(t - time_period)
              /\ AtInstant(t) <= max_calls

\* two admissions exactly time_period apart, more than max_calls in the
\* closed window
C15_Witness ==
    /\ ValidConfiguration
    /\ clock >= time_period
    /\ AtInstant(clock) >= 1
    /\ AtInstant(clock - time_period) >= 1
    /\ InClosedWindow(clock) > max_calls

SameFields(a, b) ==
    /\ a.name = b.name
    /\ a.description = b.description
    /\ a.price = b.price
    /\ a.quantity = b.quantity

\* C16: once a create has returned an item with id X, a get of X returns
\* that item with status 200, whatever is created, updated or deleted
\* under other ids, until X itself is updated or deleted.
C16_CreatedItemStays ==
    /\ \A x \in Ids :
          created[x] # NoItem
              => /\ created[x].id = x
                 /\ Lookup(items_db, x) = [status |-> 200, body |-> created[x]]
    /\ (request.op = "get" /\ created[request.id] # NoItem)
          => response = [status |-> 200, body |-> created[request.id]]
    /\ (request.op = "create" /\ response.status = 201)
          => /\ SameFields(response.body, request.body)
             /\ created[response.body.id] = response.body

\* a get returned the item created under the highest id, after deletions
\* of other ids
C16_Witness ==
    /\ request.op = "get"
    /\ response.status = 200
    /\ created[request.id] # NoItem
    /\ response.body = created[request.id]
    /\ deleted # {}
    /\ \E x \in Ids : x # request.id /\ created[x] # NoItem

\* C17: once a delete of X has returned 204, a get of X returns 404 until a
\* create assigns X again; and a get, an update (with a body the Item model
\* accepts) or a delete of an id that no item has returns 404 and leaves
\* items_db unchanged.
C17_DeletedAndMissing ==
    [][/\ \A x \in deleted' : Lookup(items_db', x).status = 404
       /\ (request'.op = "get" /\ request'.id \in deleted)
             => response'.status = 404
       /\ (request'.op = "delete" /\ request'.id \in ItemIds(items_db))
             => (response'.status = 204 /\ request'.id \in deleted')
       /\ (/\ request'.op \in {"get", "update", "delete"}
           /\ request'.op = "update" => ValidItem(request'.body)
           /\ request'.id \notin ItemIds(items_db))
             => (response'.status = 404 /\ items_db' = items_db)]_vars

\* a get of a deleted id returned 404, with other items still there
C17_Witness ==
    /\ request.op = "get"
    /\ request.id \in deleted
    /\ response.status = 404
    /\ items_db # <<>>
    /\ \E x \in Ids : created[x] # NoItem

\* C18: an update of an existing id X puts the submitted fields under id X,
\* whatever id the body carries, at the position the item had; no other
\* item changes, and a get of X then returns the updated item.
C18_UpdateInPlace ==
    [][(request'.op = "update" /\ ValidItem(request'.body)
          /\ request'.id \in ItemIds(items_db))
        => LET x == request'.id
               i == Find(items_db, x)
           IN  /\ response'.status = 200
               /\ Len(items_db') = Len(items_db)
               /\ items_db'[i].id = x
               /\ SameFields(items_db'[i], request'.body)
               /\ \A j \in DOMAIN items_db : j # i => items_db'[j] = items_db[j]
               /\ response'.body = items_db'[i]
               /\ Lookup(items_db', x) = [status |-> 200, body |-> items_db'[i]]]_vars

\* the second of several items was updated with a body carrying another id
C18_Witness ==
    /\ request.op = "update"
    /\ response.status = 200
    /\ request.body.id # 0
    /\ request.body.id # request.id
    /\ response.body.id = request.id
    /\ Find(items_db, request.id) = 2
    /\ Len(items_db) >= 3

\* n! as the product 1 * 2 * ... * n
RECURSIVE ProductUpTo(_, _, _)
ProductUpTo(k, n, acc) ==
    IF k > n THEN acc ELSE ProductUpTo(k + 1, n, MulCarry(acc, k, 0))

FactorialOf(n) == ProductUpTo(1, n, One)

\* the values the tests expect, in base Base
Expected ==
    [n \in {0, 1, 2, 3, 4, 5, 6, 7, 8, 9, 10, 12, 15, 20} |->
        CASE n = 0 -> <<1>>
          [] n = 1 -> <<1>>
          [] n = 2 -> <<2>>
          [] n = 3 -> <<6>>
          [] n = 4 -> <<24>>
          [] n = 5 -> <<120>>
          [] n = 6 -> <<720>>
          [] n = 7 -> <<5040>>
          [] n = 8 -> <<40320>>
          [] n = 9 -> <<362880>>
          [] n = 10 -> <<628800, 3>>
          [] n = 12 -> <<1600, 479>>
          [] n = 15 -> <<368000, 307674, 1>>
          [] n = 20 -> <<640000, 8176, 432902, 2>>]

\* C19: for an integer n >= 0 factorial returns n!, the value the tests
\* expect, 1 for 0 and for 1; the calls in progress are for n, n - 1, ...
\* down to 1 at most, so the recursion ends.
C19_FactorialValue ==
    /\ (fact_pc = "returned" /\ fact_arg.kind = "int")
          => /\ fact_arg.value >= 0
             /\ fact_value = FactorialOf(fact_arg.value)
             /\ fact_arg.value \in DOMAIN Expected
                   => fact_value = Expected[fact_arg.value]
             /\ fact_arg.value \in {0, 1} => fact_value = One
    /\ (fact_arg.kind = "int" /\ fact_arg.value >= 0)
          => /\ fact_pc # "raised"
             /\ \A i \in DOMAIN fact_stack :
                   fact_stack[i] = PyInt(fact_arg.value - i + 1)
                      /\ (i > 1 => fact_stack[i].value >= 1)
             /\ fact_pc = "returning"
                   => fact_value = FactorialOf(fact_arg.value - Len(fact_stack))

\* factorial(20) returned 2432902008176640000
C19_Witness ==
    /\ fact_pc = "returned"
    /\ fact_arg = PyInt(MaxFactArg)
    /\ Len(fact_value) >= 4

NonInteger(x) == x.kind \in {"float", "str"}

\* C20: factorial returns no value for an argument that is not an int or is
\* negative: it raises TypeError for a float or a str, negative or not, and
\* ValueError for a negative int, before any recursive call.
C20_InvalidArgument ==
    /\ fact_pc \in {"returning", "returned"}
          => (~NonInteger(fact_arg) /\ fact_arg.value >= 0)
    /\ (NonInteger(fact_arg) \/ fact_arg.value < 0)
          => (fact_pc \in {"calling", "raised"} /\ Len(fact_stack) <= 1)
    /\ (fact_pc = "raised" /\ NonInteger(fact_arg)) => fact_error = "TypeError"
    /\ (fact_pc = "raised" /\ ~NonInteger(fact_arg))
          => (fact_error = "ValueError" /\ fact_arg.value < 0)

\* factorial(-2.5) raised TypeError
C20_Witness ==
    /\ fact_pc = "raised"
    /\ fact_arg = [kind |-> "float", value |-> -25]
    /\ fact_error = "TypeError"

\* the log a caller entering the block works on: self.calls after line 28
Found == Prune(last.before, last.at)

\* C21: a caller that obtains the lock and, after pruning, finds fewer than
\* max_calls timestamps appends the current time and returns in that step,
\* without sleeping; with such a window and no other caller pending, a
\* caller is admitted at the instant of its call.
C21_RoomMeansAdmitted ==
    /\ (constructed /\ Entered /\ Len(Found) < max_calls)
          => /\ pc[last.task] = "done"
             /\ calls = Append(Found, last.at)
             /\ lock = NoTask
    /\ (/\ constructed
        /\ last.op = "call"
        /\ \A u \in Tasks : u # last.task => ~Pending(u)
        /\ Len(Found) < max_calls)
          => /\ pc[last.task] = "done"
             /\ last.at = clock
             /\ calls[Len(calls)] = clock
             /\ admitted[Len(admitted)] = clock

\* a caller was admitted at the instant of its call, nobody else pending,
\* into a window that kept an earlier timestamp and lost another
C21_Witness ==
    /\ ValidConfiguration
    /\ last.op = "call"
    /\ \A u \in Tasks : u # last.task => ~Pending(u)
    /\ pc[last.task] = "done"
    /\ Len(Found) >= 1
    /\ Len(Found) < Len(last.before)
    /\ calls[Len(calls)] = clock

Sorted(log) == \A i \in 1..(Len(log) - 1) : log[i] <= log[i + 1]

\* C22: the timestamps in self.calls are always in non-decreasing order,
\* the clock read by acquire() never going backwards, so that calls[0] is
\* the oldest admission in the log and no timestamp is later than the
\* current time.
C22_LogOrdered ==
    /\ Sorted(calls)
    /\ \A i \in DOMAIN calls : calls[i] <= clock

\* C23 as stated: at every instant every timestamp held in self.calls lies
\* within [now - time_period, now], also between acquire() calls.
C23_LogTrimmed ==
    \A i \in DOMAIN calls : calls[i] >= clock - time_period /\ calls[i] <= clock

\* C23 as amended: self.calls is trimmed by acquire() only.  When a caller
\* in the block has been admitted or has started to sleep, no timestamp in
\* self.calls is older than now - time_period for the time now it read, and
\* an admitted caller's own timestamp is now; between the calls, timestamps
\* older than the window stay in the log until the next acquire().
C23_TrimmedWhenAcquireRuns ==
    (last.op \in {"call", "resume", "wake"} /\ pc[last.task] # "queued")
        => /\ \A i \in DOMAIN calls : calls[i] >= last.at - time_period
           /\ pc[last.task] = "done" => calls[Len(calls)] = last.at
           /\ calls = IF pc[last.task] = "done"
                      THEN Append(Found, last.at)
                      ELSE Found

\* a caller woke from its sleep: the oldest timestamp, a whole period old
\* by then, was pruned and a younger one kept
C23_Witness ==
    /\ last.op = "wake"
    /\ Len(calls) >= 2
    /\ Len(calls) = Len(last.before)
    /\ last.before[1] <= last.at - time_period

\* C24: on a limiter with max_calls >= 1 and time_period > 0, acquire()
\* raises no error: a call is pending, or has returned after appending its
\* timestamp, or was cancelled while suspended, in which case it has
\* appended nothing and is not counted among the calls that returned.
C24_NoErrorWhenValid ==
    ValidConfiguration
        => /\ \A t \in Tasks :
                 pc[t] \in {"idle", "queued", "sleeping", "done", "cancelled"}
           /\ last.op \in {"call", "resume", "wake"}
                 => pc[last.task] \in {"queued", "sleeping", "done"}
           /\ last.op \in {"cancel_sleep", "cancel_wait"}
                 => /\ pc[last.task] = "cancelled"
                    /\ calls = last.before
           /\ Len(admitted) = returned

\* a call was cancelled in its sleep after another call had returned
C24_Witness ==
    /\ ValidConfiguration
    /\ last.op = "cancel_sleep"
    /\ pc[last.task] = "cancelled"
    /\ returned >= 1
    /\ \E t \in Tasks : pc[t] = "done"

\* C26: a caller that finds the window full after pruning, on a limiter
\* with max_calls >= 1, computes a wait_time with 0 < wait_time <=
\* time_period: it sleeps, for one period at most.
C26_WaitWithinPeriod ==
    (constructed /\ max_calls >= 1 /\ Entered /\ AtLimit(Found))
        => /\ WaitTime(Found, last.at) > 0
           /\ WaitTime(Found, last.at) <= time_period
           /\ pc[last.task] = "sleeping"
           /\ wake_at[last.task] = last.at + WaitTime(Found, last.at)
           /\ wake_at[last.task] <= last.at + time_period

\* a caller found the window full and sleeps for less than a period
C26_Witness ==
    /\ constructed
    /\ max_calls >= 2
    /\ Entered
    /\ AtLimit(Found)
    /\ pc[last.task] = "sleeping"
    /\ wake_at[last.task] > last.at
    /\ wake_at[last.task] < last.at + time_period

\* C27: a limiter constructed with max_calls <= 0 admits nobody: every
\* acquire() fails at calls[0] of the empty log, having appended nothing and
\* without having been suspended, and leaves the lock free, so that the
\* next call fails the same way.
C27_NobodyAdmitted ==
    (constructed /\ max_calls <= 0)
        => /\ calls = <<>>
           /\ admitted = <<>>
           /\ returned = 0
           /\ lock = NoTask
           /\ waiters = <<>>
           /\ \A t \in Tasks : pc[t] \in {"idle", "error"}
           /\ last.op = "call" => pc[last.task] = "error"

\* a second call failed after a first one had
C27_Witness ==
    /\ constructed
    /\ max_calls <= 0
    /\ issued >= 2
    /\ last.op = "call"
    /\ pc[last.task] = "error"
    /\ \E t \in Tasks : t # last.task /\ pc[t] = "error"

\* the tasks suspended in acquire() on limiter l
Suspended(l) ==
    {t \in Tasks : callers[t].on = l /\ callers[t].pc \in {"queued", "sleeping"}}

\* C25: two limiters are independent.  A step of acquire() on one of them,
\* its call, its wake-up or its cancellation, leaves every attribute of the
\* other as it was, and the tasks calling the other where they were; a
\* caller of a limiter whose own lock is free and whose own window has room
\* is admitted at once, whoever sleeps on the other; and no step of
\* acquire() changes max_calls or time_period of its own limiter.
C25_Independent ==
    [][\A l \in Limiters :
          /\ pair_last'.on # l
                => /\ limiters'[l] = limiters[l]
                   /\ \A t \in Tasks : callers[t].on = l => callers'[t] = callers[t]
          /\ pair_last'.op # "new"
                => /\ limiters'[l].max_calls = limiters[l].max_calls
                   /\ limiters'[l].time_period = limiters[l].time_period
          /\ (/\ pair_last'.op = "call"
              /\ pair_last'.on = l
              /\ Suspended(l) = {}
              /\ Len(PairPrune(limiters[l], pair_clock)) < limiters[l].max_calls)
                => /\ callers'[pair_last'.task].pc = "done"
                   /\ limiters'[l].calls =
                         Append(PairPrune(limiters[l], pair_clock), pair_clock)]_vars

\* a caller of one limiter was admitted at once while, on the other, a
\* task slept holding that limiter's lock
C25_Witness ==
    /\ pair_last.op = "call"
    /\ callers[pair_last.task].pc = "done"
    /\ \E u \in Tasks :
          /\ callers[u].pc = "sleeping"
          /\ callers[u].on # pair_last.on
          /\ limiters[callers[u].on].lock = u
    /\ limiters[pair_last.on].calls # <<>>
    /\ \A l \in Limiters : limiters[l].made

DistinctIds(db) == \A i, j \in DOMAIN db : i # j => db[i].id # db[j].id

\* C28: whatever was created, updated and deleted, the items of items_db
\* have ids distinct from one another, and the id a create assigns is
\* greater than the id of every item items_db held when it ran, 1 when it
\* held none.
C28_DistinctIds ==
    /\ []DistinctIds(items_db)
    /\ [][(request'.op = "create" /\ response'.status = 201)
            => /\ \A i \in DOMAIN items_db : response'.body.id > items_db[i].id
               /\ items_db = <<>> => response'.body.id = 1
               /\ items_db' = Append(items_db, response'.body)]_vars

\* a create was given an id beyond the number of items, ids below it
\* having been deleted, and an update had put a body with an id of its own
C28_Witness ==
    /\ request.op = "create"
    /\ response.status = 201
    /\ response.body.id > Len(items_db)
    /\ deleted # {}
    /\ \E i \in DOMAIN items_db : items_db[i].name = UpdatedItem.name
    /\ DistinctIds(items_db)

\* a prime number: an integer above 1 that no smaller one above 1 divides
IsPrimeNumber(n) == n >= 2 /\ \A d \in 2..(n - 1) : n % d # 0

PrimesUpTo(limit) == {n \in 2..limit : IsPrimeNumber(n)}

Streamed == {rpc_stream[k].prime : k \in DOMAIN rpc_stream}

\* C29: GeneratePrimes with a limit of 2 or more streams the prime numbers
\* of [2, limit] and nothing else, each once, in increasing order, the k-th
\* response carrying position k; with a limit below 2 it streams nothing
\* and sets the status INVALID_ARGUMENT.
C29_PrimesStreamed ==
    rpc_method = "GeneratePrimes"
        => /\ \A k \in DOMAIN rpc_stream :
                 /\ rpc_stream[k].position = k
                 /\ k > 1 => rpc_stream[k - 1].prime < rpc_stream[k].prime
           /\ rpc_locals # NoLocals => Streamed = PrimesUpTo(rpc_locals.number - 1)
           /\ rpc_arg < 2 => rpc_stream = <<>>
           /\ (rpc_pc = "done" /\ rpc_arg < 2) => rpc_code = "INVALID_ARGUMENT"
           /\ (rpc_pc = "done" /\ rpc_arg >= 2)
                 => /\ Streamed = PrimesUpTo(rpc_arg)
                    /\ Len(rpc_stream) = Cardinality(PrimesUpTo(rpc_arg))
                    /\ rpc_code = "OK"

\* the primes up to 125 were streamed: 30 of them, 113 the last, 49 and
\* 121 not among them
C29_Witness ==
    /\ rpc_method = "GeneratePrimes"
    /\ rpc_pc = "done"
    /\ rpc_arg >= 121
    /\ Len(rpc_stream) = 30
    /\ rpc_stream[30] = PrimeResponse(113, 30)
    /\ rpc_stream[15] = PrimeResponse(47, 15)

\* C30: CalculateFactorial with a number n >= 1 streams n responses, the
\* i-th with step i and result i!, and with n = 0 a single response with
\* step 0 and result 1; the last response, and no other, has is_final set
\* and carries n!; with n < 0 it streams nothing and sets the status
\* INVALID_ARGUMENT.
C30_FactorialStreamed ==
    rpc_method = "CalculateFactorial"
        => /\ \A k \in DOMAIN rpc_stream :
                 /\ rpc_stream[k].step = (IF rpc_arg = 0 THEN 0 ELSE k)
                 /\ rpc_stream[k].result = FactorialOf(rpc_stream[k].step)
                 /\ rpc_stream[k].is_final <=> (rpc_stream[k].step = rpc_arg)
           /\ rpc_arg < 0 => rpc_stream = <<>>
           /\ (rpc_pc = "done" /\ rpc_arg < 0) => rpc_code = "INVALID_ARGUMENT"
           /\ (rpc_pc = "done" /\ rpc_arg >= 0)
                 => /\ Len(rpc_stream) = (IF rpc_arg = 0 THEN 1 ELSE rpc_arg)
                    /\ rpc_stream[Len(rpc_stream)].is_final
                    /\ rpc_stream[Len(rpc_stream)].result = FactorialOf(rpc_arg)
                    /\ rpc_arg \in DOMAIN Expected
                          => rpc_stream[Len(rpc_stream)].result = Expected[rpc_arg]
                    /\ rpc_code = "OK"

\* the factorial of 5 was streamed in five steps, the last one final: 120
C30_Witness ==
    /\ rpc_method = "CalculateFactorial"
    /\ rpc_pc = "done"
    /\ rpc_arg = 5
    /\ Len(rpc_stream) = 5
    /\ rpc_stream[5] = FactorialResponse(<<120>>, 5, TRUE)
    /\ ~rpc_stream[4].is_final

====
